---- MODULE Spec2Model ----
(***************************************************************************)
(* Lifecycle state machine of constellation-standalone (src/src/lib.rs):   *)
(* Standalone::main, the signal handler and the helpers main calls.        *)
(*                                                                         *)
(* Two execution contexts: the lifecycle thread (main, one action per      *)
(* statement that can be separated from the next by a signal) and the      *)
(* signal-delivery context, which interrupts the lifecycle thread.  The    *)
(* handler is installed with signal(2): the signal being handled is        *)
(* blocked while its handler runs, the other two are not, so handlers of   *)
(* different kinds nest (hstack).  A signal whose disposition is the       *)
(* default one ends the process in the kernel, without running any code of *)
(* this program; like SIGKILL it is not part of the model.                 *)
(***************************************************************************)
EXTENDS Integers, Sequences, FiniteSets, TLC

\* Number of signals the environment delivers in one run.
MaxSignals == 3

\* Option values: None is the empty sequence, Some(x) the one-element one.
None == <<>>
Some(x) == <<x>>

SIGTERM == "SIGTERM"
SIGINT == "SIGINT"
SIGHUP == "SIGHUP"

\* The order in which main registers the handler.
ArmOrder == <<SIGTERM, SIGINT, SIGHUP>>

Signals == {SIGTERM, SIGINT, SIGHUP}

\* Return values of signal(2): the previous disposition, or SIG_ERR
\* ((sighandler_t) -1, i.e. usize::MAX).
SIG_DFL == 0
SIG_IGN == 1
SIG_ERR == -1

\* S::CONFIG_FILES, in order of preference.
CONFIG_FILES == <<"app.yaml", "app.yml">>

HomeDir == "home"
ConfDir == "conf"

\* What File::open / serde_yaml::from_reader find at a path.
FileStates == {"absent", "unreadable", "invalid", "valid"}

VARIABLES
    pc,             \* position of the lifecycle thread in Standalone::main
    exitCode,       \* Some(exit status), None while the process runs
    dirs,           \* result of config_dirs
    fs,             \* what load_config is about to find at each candidate path
    config,         \* result of load_config (moved into create)
    app,            \* the component instance: "none", "app" or "moved"
    createCleanup,  \* create_cleanup / cleanup bound in main
    runResult,      \* Some(what run returned)
    waitResult,     \* Some(what wait_no_reset returned)
    notifyAt,       \* notifyCalls when the wait began and when it returned
    notifyInit,     \* number of writes of SHUTDOWN_NOTIFY
    notified,       \* the flag of the Notify object
    flag,           \* SHUTDOWN_ON_INT
    disp,           \* disposition of each signal: "DFL", "IGN" or "handler"
    attempted,      \* signals for which signal(2) has been called
    armRet,         \* Some(return value of the last signal(2) call)
    hstack,         \* active handler invocations, innermost last
    calls,          \* component operations invoked so far, in order
    notifyCalls,    \* number of notify() calls made by the handler
    delivered,      \* number of signals delivered so far
    ub,             \* TRUE once the handler used an uninitialized Notify
    logged          \* messages reported so far

vars == <<pc, exitCode, dirs, fs, config, app, createCleanup, runResult,
          waitResult, notifyAt, notifyInit, notified, flag, disp, attempted,
          armRet, hstack, calls, notifyCalls, delivered, ub, logged>>

\* What only the lifecycle thread changes.
lifecycleVars == <<pc, dirs, fs, config, app, createCleanup, runResult,
                   waitResult, notifyAt, notifyInit, disp, attempted, armRet,
                   calls>>

\* What only signal delivery changes.
signalVars == <<flag, hstack, notifyCalls, delivered, ub>>

----------------------------------------------------------------------------
\* Pure helpers.

EnvStates == {"NotPresent", "NotUnicode", "Present"}

\* The inputs get_args reads: the two confdir and the two loglvl environment
\* variables, the -c, -l and -v arguments, and whether the chosen log level
\* string parses as a LevelFilter.
ArgInputs ==
    [compConfdirEnv : EnvStates, confdirEnv : EnvStates,
     compLoglvlEnv : EnvStates, loglvlEnv : EnvStates,
     confdirArg : BOOLEAN, loglvlArg : BOOLEAN, envLoglvlParses : BOOLEAN,
     verbose : 0..4]

\* get_args: "Err" or the resolved arguments.
get_args(in) ==
    IF in.compConfdirEnv = "NotUnicode" THEN "Err"
    ELSE IF in.confdirEnv = "NotUnicode" THEN "Err"
    ELSE IF in.verbose > 3 THEN "Err"
    ELSE IF in.compLoglvlEnv = "NotUnicode" THEN "Err"
    ELSE IF in.compLoglvlEnv = "Present" /\ in.verbose # 0 THEN "Err"
    ELSE IF in.loglvlEnv = "NotUnicode" THEN "Err"
    ELSE IF in.loglvlEnv = "Present" /\ in.verbose # 0 THEN "Err"
    ELSE IF in.loglvlArg /\ in.verbose # 0 THEN "Err"
    ELSE IF /\ ~in.loglvlArg
            /\ (in.compLoglvlEnv = "Present" \/ in.loglvlEnv = "Present")
            /\ ~in.envLoglvlParses THEN "Err"
    ELSE "Ok"

\* config_dirs: the home directory first (if HOME is set), then one more.
config_dirs(homeSet) ==
    IF homeSet THEN <<HomeDir, ConfDir>> ELSE <<ConfDir>>

\* The paths load_config tries, in the order it tries them: the loop over the
\* file names is the outer one, the loop over the directories the inner one.
RECURSIVE JoinDirs(_, _)
JoinDirs(ds, file) ==
    IF ds = <<>> THEN <<>>
    ELSE <<[dir |-> Head(ds), file |-> file]>> \o JoinDirs(Tail(ds), file)

RECURSIVE Candidates(_, _)
Candidates(ds, names) ==
    IF names = <<>> THEN <<>>
    ELSE JoinDirs(ds, Head(names)) \o Candidates(ds, Tail(names))

\* Mutant of FirstValid: a file that opens counts without being parsed.
RECURSIVE FirstValid_NoParse(_, _)
FirstValid_NoParse(paths, files) ==
    IF paths = <<>> THEN None
    ELSE IF files[Head(paths)] \in {"valid", "invalid"}
         THEN Some(Head(paths))
    ELSE FirstValid_NoParse(Tail(paths), files)

RECURSIVE FirstValid(_, _)
FirstValid(paths, files) ==
    IF paths = <<>> THEN None
    ELSE IF files[Head(paths)] = "valid" THEN Some(Head(paths))
    ELSE FirstValid(Tail(paths), files)

\* load_config: the first path that is a file, opens and parses; None if
\* there is none.
load_config(ds, files) == FirstValid(Candidates(ds, CONFIG_FILES), files)

Paths(ds) == {[dir |-> ds[i], file |-> CONFIG_FILES[j]] :
                 i \in 1..Len(ds), j \in 1..Len(CONFIG_FILES)}

----------------------------------------------------------------------------
Init ==
    /\ pc = "start"
    /\ exitCode = None
    /\ dirs = <<>>
    /\ fs = [p \in {} |-> "absent"]
    /\ config = None
    /\ app = "none"
    /\ createCleanup = "none"
    /\ runResult = None
    /\ waitResult = None
    /\ notifyAt = <<>>
    /\ notifyInit = 0
    /\ notified = FALSE
    /\ flag = FALSE
    /\ disp \in [Signals -> {"DFL", "IGN"}]
    /\ attempted = {}
    /\ armRet = None
    /\ hstack = <<>>
    /\ calls = <<>>
    /\ notifyCalls = 0
    /\ delivered = 0
    /\ ub = FALSE
    /\ logged = {}

Alive == exitCode = None

\* The lifecycle thread runs only while no handler invocation is active.
MainRuns == Alive /\ hstack = <<>>

\* A component operation invoked by main, with the cleanup arguments it got.
Call(op, create, run) == [op |-> op, create |-> create, run |-> run]

Log(msg) == logged' = logged \cup {msg}

----------------------------------------------------------------------------
\* The lifecycle thread: Standalone::main.

\* get_args; on Err the message is printed and the process exits with 1.
MainGetArgs ==
    /\ MainRuns /\ pc = "start"
    /\ \E in \in ArgInputs :
          IF get_args(in) = "Err"
          THEN /\ pc' = "exited"
               /\ exitCode' = Some(1)
               /\ Log("argument error")
          ELSE /\ pc' = "bootstrap"
               /\ UNCHANGED <<exitCode, logged>>
    /\ UNCHANGED <<dirs, fs, config, app, createCleanup, runResult, waitResult,
                   notifyAt, notifyInit, notified, disp, attempted, armRet,
                   calls>>
    /\ UNCHANGED signalVars

\* bootstrap_log_setup (which panics if the logger cannot be built),
\* config_dirs and log_setup.  The file system load_config will see is
\* fixed here.
MainBootstrapLog ==
    /\ MainRuns /\ pc = "bootstrap"
    /\ \E panics \in BOOLEAN, homeSet \in BOOLEAN :
          IF panics
          THEN /\ pc' = "panicked"
               /\ exitCode' = Some(101)
               /\ UNCHANGED <<dirs, fs>>
          ELSE /\ pc' = "load"
               /\ dirs' = config_dirs(homeSet)
               /\ fs' \in [Paths(config_dirs(homeSet)) -> FileStates]
               /\ UNCHANGED exitCode
    /\ UNCHANGED <<config, app, createCleanup, runResult, waitResult, notifyAt,
                   notifyInit, notified, disp, attempted, armRet, calls,
                   logged>>
    /\ UNCHANGED signalVars

\* load_config and the branch on its result; without a configuration main
\* logs the error and returns.  Nothing reads the files afterwards.
MainLoadConfig ==
    /\ MainRuns /\ pc = "load"
    /\ config' = load_config(dirs, fs)
    /\ fs' = [p \in {} |-> "absent"]
    /\ IF config' = None
       THEN /\ Log("could not obtain valid configuration")
            /\ pc' = "done"
            /\ exitCode' = Some(0)
       ELSE /\ pc' = "create"
            /\ UNCHANGED <<exitCode, logged>>
    /\ UNCHANGED <<dirs, app, createCleanup, runResult, waitResult, notifyAt,
                   notifyInit, notified, disp, attempted, armRet, calls>>
    /\ UNCHANGED signalVars

\* Mutant of MainCreate: the handlers are registered without the
\* notification object having been written.
MainCreate_SkipInit ==
    /\ MainRuns /\ pc = "create"
    /\ calls' = Append(calls, Call("create", None, None))
    /\ createCleanup' = "create_cleanup"
    /\ \E ok \in BOOLEAN :
          IF ok THEN app' = "app" /\ pc' = "arm"
                ELSE app' = "none" /\ pc' = "create_failed"
    /\ UNCHANGED <<exitCode, dirs, fs, config, runResult, waitResult, notifyAt,
                   notifyInit, notified, disp, attempted, armRet, logged>>
    /\ UNCHANGED signalVars

\* Self::create(arg_matches, config).
MainCreate ==
    /\ MainRuns /\ pc = "create"
    /\ calls' = Append(calls, Call("create", None, None))
    /\ createCleanup' = "create_cleanup"
    /\ \E ok \in BOOLEAN :
          IF ok THEN app' = "app" /\ pc' = "init_notify"
                ELSE app' = "none" /\ pc' = "create_failed"
    /\ UNCHANGED <<exitCode, dirs, fs, config, runResult, waitResult, notifyAt,
                   notifyInit, notified, disp, attempted, armRet, logged>>
    /\ UNCHANGED signalVars

\* Mutant of MainShutdownCreateErr: the failure branch returns without
\* cleaning up.
MainShutdownCreateErr_NoCleanup ==
    /\ MainRuns /\ pc = "create_failed"
    /\ createCleanup' = "moved"
    /\ pc' = "in_shutdown"
    /\ UNCHANGED <<exitCode, dirs, fs, config, app, runResult, waitResult,
                   notifyAt, notifyInit, notified, disp, attempted, armRet,
                   calls,
                   logged>>
    /\ UNCHANGED signalVars

\* Err(cleanup) => Self::shutdown(cleanup, None).
MainShutdownCreateErr ==
    /\ MainRuns /\ pc = "create_failed"
    /\ calls' = Append(calls, Call("shutdown", Some(createCleanup), None))
    /\ createCleanup' = "moved"
    /\ pc' = "in_shutdown"
    /\ UNCHANGED <<exitCode, dirs, fs, config, app, runResult, waitResult,
                   notifyAt, notifyInit, notified, disp, attempted, armRet,
                   logged>>
    /\ UNCHANGED signalVars

\* SHUTDOWN_NOTIFY.write(Notify::new()).
MainInitNotify ==
    /\ MainRuns /\ pc = "init_notify"
    /\ notifyInit' = notifyInit + 1
    /\ notified' = FALSE
    /\ pc' = "arm"
    /\ UNCHANGED <<exitCode, dirs, fs, config, app, createCleanup, runResult,
                   waitResult, notifyAt, disp, attempted, armRet, calls,
                   logged>>
    /\ UNCHANGED signalVars

\* signal(2): its return value is the previous disposition, or SIG_ERR when
\* the kernel refuses the registration.
signal_ret(sig, oserr) ==
    IF oserr THEN SIG_ERR
    ELSE IF disp[sig] = "IGN" THEN SIG_IGN ELSE SIG_DFL

\* signal(2): the handler is installed unless the call fails.
signal_disp(sig, oserr) ==
    IF oserr THEN disp ELSE [disp EXCEPT ![sig] = "handler"]

\* The signals whose handler is installed.
armed == {s \in Signals : disp[s] = "handler"}

\* Mutant of MainArm: the result of the registration is not looked at.
MainArm_IgnoresFailure ==
    /\ MainRuns /\ pc = "arm"
    /\ LET k == Cardinality(attempted) + 1
           sig == ArmOrder[k]
       IN \E oserr \in BOOLEAN :
             /\ armRet' = Some(signal_ret(sig, oserr))
             /\ disp' = signal_disp(sig, oserr)
             /\ attempted' = attempted \cup {sig}
             /\ pc' = IF k = Len(ArmOrder) THEN "run" ELSE "arm"
    /\ UNCHANGED <<exitCode, dirs, fs, config, app, createCleanup, runResult,
                   waitResult, notifyAt, notifyInit, notified, calls, logged>>
    /\ UNCHANGED signalVars

\* match unsafe { signal(SIG, handler) } { 0 => {} err => ... }, for the
\* next signal of SIGTERM, SIGINT, SIGHUP.
MainArm ==
    /\ MainRuns /\ pc = "arm"
    /\ LET k == Cardinality(attempted) + 1
           sig == ArmOrder[k]
       IN \E oserr \in BOOLEAN :
             /\ armRet' = Some(signal_ret(sig, oserr))
             /\ disp' = signal_disp(sig, oserr)
             /\ attempted' = attempted \cup {sig}
             /\ pc' = IF signal_ret(sig, oserr) = 0
                      THEN (IF k = Len(ArmOrder) THEN "run" ELSE "arm")
                      ELSE "report_signal_error"
    /\ UNCHANGED <<exitCode, dirs, fs, config, app, createCleanup, runResult,
                   waitResult, notifyAt, notifyInit, notified, calls, logged>>
    /\ UNCHANGED signalVars

\* report_signal_error(err).  It hands the pointer strerror returned to
\* CString::from_raw, which is only defined for pointers CString::into_raw
\* produced; the string is freed after logging.  The build either gets away
\* with it or the allocator aborts the process.
MainReportSignalError ==
    /\ MainRuns /\ pc = "report_signal_error"
    /\ \E aborts \in BOOLEAN :
          IF aborts
          THEN /\ pc' = "aborted"
               /\ exitCode' = Some(134)
               /\ UNCHANGED logged
          ELSE /\ pc' = "arm_failed"
               /\ Log("error registering signal handler")
               /\ UNCHANGED exitCode
    /\ UNCHANGED <<dirs, fs, config, app, createCleanup, runResult, waitResult,
                   notifyAt, notifyInit, notified, disp, attempted, armRet,
                   calls>>
    /\ UNCHANGED signalVars

\* Mutant of MainShutdownArmErr: the return after the cleanup is missing and
\* main carries on.
MainShutdownArmErr_FallsThrough ==
    /\ MainRuns /\ pc = "arm_failed"
    /\ calls' = Append(calls, Call("shutdown", Some(createCleanup), None))
    /\ createCleanup' = "moved"
    /\ pc' = IF attempted = Signals THEN "run" ELSE "arm"
    /\ UNCHANGED <<exitCode, dirs, fs, config, app, runResult, waitResult,
                   notifyAt, notifyInit, notified, disp, attempted, armRet,
                   logged>>
    /\ UNCHANGED signalVars

\* Self::shutdown(create_cleanup, None) after a failed registration.
MainShutdownArmErr ==
    /\ MainRuns /\ pc = "arm_failed"
    /\ calls' = Append(calls, Call("shutdown", Some(createCleanup), None))
    /\ createCleanup' = "moved"
    /\ pc' = "in_shutdown"
    /\ UNCHANGED <<exitCode, dirs, fs, config, app, runResult, waitResult,
                   notifyAt, notifyInit, notified, disp, attempted, armRet,
                   logged>>
    /\ UNCHANGED signalVars

\* app.run() is entered.
MainRunCall ==
    /\ MainRuns /\ pc = "run"
    /\ calls' = Append(calls, Call("run", None, None))
    /\ app' = "moved"
    /\ pc' = "running"
    /\ UNCHANGED <<exitCode, dirs, fs, config, createCleanup, runResult,
                   waitResult, notifyAt, notifyInit, notified, disp,
                   attempted, armRet,
                   logged>>
    /\ UNCHANGED signalVars

\* Mutant of MainRunReturn: main waits for the notification whatever run
\* returned.
MainRunReturn_AlwaysWaits ==
    /\ MainRuns /\ pc = "running"
    /\ \E ok \in BOOLEAN :
          /\ runResult' = Some([ok |-> ok,
                                cleanup |-> IF ok THEN "run_cleanup"
                                                  ELSE "run_error_cleanup"])
          /\ pc' = "wait"
          /\ notifyAt' = <<notifyCalls>>
    /\ UNCHANGED <<exitCode, dirs, fs, config, app, createCleanup, waitResult,
                   notifyInit, notified, disp, attempted, armRet, calls,
                   logged>>
    /\ UNCHANGED signalVars

\* app.run() returns Ok(run_cleanup) or Err(err).
MainRunReturn ==
    /\ MainRuns /\ pc = "running"
    /\ \E ok \in BOOLEAN :
          /\ runResult' = Some([ok |-> ok,
                                cleanup |-> IF ok THEN "run_cleanup"
                                                  ELSE "run_error_cleanup"])
          /\ pc' = IF ok THEN "wait" ELSE "run_failed"
          /\ notifyAt' = IF ok THEN <<notifyCalls>> ELSE notifyAt
    /\ UNCHANGED <<exitCode, dirs, fs, config, app, createCleanup, waitResult,
                   notifyInit, notified, disp, attempted, armRet, calls,
                   logged>>
    /\ UNCHANGED signalVars

\* Notify::wait_no_reset: returns Ok once the object has been notified and
\* leaves it notified; returns Err if the object is unusable.
wait_no_reset(res) == res = "Ok" => notified

\* Mutant of MainWait: a wait error makes main return without cleaning up.
MainWait_ErrReturns ==
    /\ MainRuns /\ pc = "wait"
    /\ \E res \in {"Ok", "Err"} :
          /\ wait_no_reset(res)
          /\ waitResult' = Some(res)
          /\ notifyAt' = Append(notifyAt, notifyCalls)
          /\ IF res = "Err" THEN Log("bad condition variable")
                            ELSE UNCHANGED logged
          /\ pc' = IF res = "Err" THEN "in_shutdown" ELSE "wait_done"
    /\ UNCHANGED <<exitCode, dirs, fs, config, app, createCleanup, runResult,
                   notifyInit, notified, disp, attempted, armRet, calls>>
    /\ UNCHANGED signalVars

\* Mutant of MainWait: main calls wait(), which takes the notification away,
\* instead of wait_no_reset().
MainWait_Resets ==
    /\ MainRuns /\ pc = "wait"
    /\ \E res \in {"Ok", "Err"} :
          /\ wait_no_reset(res)
          /\ waitResult' = Some(res)
          /\ notifyAt' = Append(notifyAt, notifyCalls)
          /\ notified' = IF res = "Ok" THEN FALSE ELSE notified
          /\ IF res = "Err" THEN Log("bad condition variable")
                            ELSE UNCHANGED logged
    /\ pc' = "wait_done"
    /\ UNCHANGED <<exitCode, dirs, fs, config, app, createCleanup, runResult,
                   notifyInit, disp, attempted, armRet, calls>>
    /\ UNCHANGED signalVars

\* SHUTDOWN_NOTIFY.assume_init_mut().wait_no_reset(), an error being logged.
MainWait ==
    /\ MainRuns /\ pc = "wait"
    /\ \E res \in {"Ok", "Err"} :
          /\ wait_no_reset(res)
          /\ waitResult' = Some(res)
          /\ notifyAt' = Append(notifyAt, notifyCalls)
          /\ IF res = "Err" THEN Log("bad condition variable")
                            ELSE UNCHANGED logged
    /\ pc' = "wait_done"
    /\ UNCHANGED <<exitCode, dirs, fs, config, app, createCleanup, runResult,
                   notifyInit, notified, disp, attempted, armRet, calls>>
    /\ UNCHANGED signalVars

\* Mutant of MainShutdownOk: the run cleanup is dropped.
MainShutdownOk_DropsRun ==
    /\ MainRuns /\ pc = "wait_done"
    /\ calls' = Append(calls, Call("shutdown", Some(createCleanup), None))
    /\ createCleanup' = "moved"
    /\ pc' = "in_shutdown"
    /\ UNCHANGED <<exitCode, dirs, fs, config, app, runResult, waitResult,
                   notifyAt, notifyInit, notified, disp, attempted, armRet,
                   logged>>
    /\ UNCHANGED signalVars

\* Mutant of MainShutdownOk: main waits again after the cleanup, once for
\* every notification.
MainShutdownOk_Loops ==
    /\ MainRuns /\ pc = "wait_done"
    /\ calls' = Append(calls, Call("shutdown", Some(createCleanup),
                                   Some(runResult[1].cleanup)))
    /\ pc' = "wait"
    /\ UNCHANGED <<exitCode, dirs, fs, config, app, createCleanup, runResult,
                   waitResult, notifyAt, notifyInit, notified, disp,
                   attempted, armRet, logged>>
    /\ UNCHANGED signalVars

\* Self::shutdown(create_cleanup, Some(run_cleanup)).
MainShutdownOk ==
    /\ MainRuns /\ pc = "wait_done"
    /\ calls' = Append(calls, Call("shutdown", Some(createCleanup),
                                   Some(runResult[1].cleanup)))
    /\ createCleanup' = "moved"
    /\ pc' = "in_shutdown"
    /\ UNCHANGED <<exitCode, dirs, fs, config, app, runResult, waitResult,
                   notifyAt, notifyInit, notified, disp, attempted, armRet,
                   logged>>
    /\ UNCHANGED signalVars

\* Mutant of MainShutdownErr: the error branch takes the success cleanup.
MainShutdownErr_WrongPath ==
    /\ MainRuns /\ pc = "run_failed"
    /\ calls' = Append(calls, Call("shutdown", Some(createCleanup), None))
    /\ createCleanup' = "moved"
    /\ pc' = "in_shutdown"
    /\ UNCHANGED <<exitCode, dirs, fs, config, app, runResult, waitResult,
                   notifyAt, notifyInit, notified, disp, attempted, armRet,
                   logged>>
    /\ UNCHANGED signalVars

\* Err(err) => Self::shutdown_err(create_cleanup, err).
MainShutdownErr ==
    /\ MainRuns /\ pc = "run_failed"
    /\ calls' = Append(calls, Call("shutdown_err", Some(createCleanup),
                                   Some(runResult[1].cleanup)))
    /\ createCleanup' = "moved"
    /\ pc' = "in_shutdown"
    /\ UNCHANGED <<exitCode, dirs, fs, config, app, runResult, waitResult,
                   notifyAt, notifyInit, notified, disp, attempted, armRet,
                   logged>>
    /\ UNCHANGED signalVars

\* shutdown or shutdown_err returns, main returns and the process ends with
\* the status of a main that returned.
MainReturn ==
    /\ MainRuns /\ pc = "in_shutdown"
    /\ pc' = "done"
    /\ exitCode' = Some(0)
    /\ UNCHANGED <<dirs, fs, config, app, createCleanup, runResult, waitResult,
                   notifyAt, notifyInit, notified, disp, attempted, armRet,
                   calls,
                   logged>>
    /\ UNCHANGED signalVars

----------------------------------------------------------------------------
\* Signal delivery: handler.

Top == hstack[Len(hstack)]

Pop == SubSeq(hstack, 1, Len(hstack) - 1)

InHandler(sig) == \E i \in 1..Len(hstack) : hstack[i].sig = sig

\* The kernel delivers sig: the handler is entered if it is installed, the
\* signal is dropped if it is ignored.  A signal is blocked while its own
\* handler runs.
Deliver(sig) ==
    /\ Alive /\ delivered < MaxSignals
    /\ ~InHandler(sig)
    /\ disp[sig] \in {"handler", "IGN"}
    /\ delivered' = delivered + 1
    /\ hstack' = IF disp[sig] = "handler"
                 THEN Append(hstack, [sig |-> sig, hpc |-> "check"])
                 ELSE hstack
    /\ UNCHANGED <<exitCode, notified, flag, notifyCalls, ub, logged>>
    /\ UNCHANGED lifecycleVars

\* Mutant of HandlerCheck: a repeated interrupt does not exit.
HandlerCheck_NoExit ==
    /\ Alive /\ hstack # <<>> /\ Top.hpc = "check"
    /\ flag' = (flag \/ Top.sig = SIGINT)
    /\ hstack' = [hstack EXCEPT ![Len(hstack)].hpc = "notify"]
    /\ UNCHANGED <<exitCode, notified, notifyCalls, delivered, ub, logged>>
    /\ UNCHANGED lifecycleVars

\* Mutant of HandlerCheck: the first interrupt sets the flag and returns.
HandlerCheck_ReturnsEarly ==
    /\ Alive /\ hstack # <<>> /\ Top.hpc = "check"
    /\ IF Top.sig = SIGINT /\ flag
       THEN /\ exitCode' = Some(1)
            /\ UNCHANGED <<flag, hstack>>
       ELSE /\ flag' = (flag \/ Top.sig = SIGINT)
            /\ hstack' = IF Top.sig = SIGINT THEN Pop
                         ELSE [hstack EXCEPT ![Len(hstack)].hpc = "notify"]
            /\ UNCHANGED exitCode
    /\ UNCHANGED <<notified, notifyCalls, delivered, ub, logged>>
    /\ UNCHANGED lifecycleVars

\* Mutant of HandlerCheck: the escalation applies to every signal kind.
HandlerCheck_AnySignal ==
    /\ Alive /\ hstack # <<>> /\ Top.hpc = "check"
    /\ IF flag
       THEN /\ exitCode' = Some(1)
            /\ UNCHANGED <<flag, hstack>>
       ELSE /\ flag' = TRUE
            /\ hstack' = [hstack EXCEPT ![Len(hstack)].hpc = "notify"]
            /\ UNCHANGED exitCode
    /\ UNCHANGED <<notified, notifyCalls, delivered, ub, logged>>
    /\ UNCHANGED lifecycleVars

\* if sig == SIGINT { if SHUTDOWN_ON_INT { exit(1) } else
\* { SHUTDOWN_ON_INT = true } }
HandlerCheck ==
    /\ Alive /\ hstack # <<>> /\ Top.hpc = "check"
    /\ IF Top.sig = SIGINT /\ flag
       THEN /\ exitCode' = Some(1)
            /\ UNCHANGED <<flag, hstack>>
       ELSE /\ flag' = (flag \/ Top.sig = SIGINT)
            /\ hstack' = [hstack EXCEPT ![Len(hstack)].hpc = "notify"]
            /\ UNCHANGED exitCode
    /\ UNCHANGED <<notified, notifyCalls, delivered, ub, logged>>
    /\ UNCHANGED lifecycleVars

\* Notify::notify: on success the object is notified, on failure (the
\* object is unusable) it is left as it was.
notify(ok) == notified \/ ok

\* Mutant of HandlerNotify: the handler also starts the cleanup itself.
HandlerNotify_CleansUp ==
    /\ Alive /\ hstack # <<>> /\ Top.hpc = "notify"
    /\ \E ok \in BOOLEAN :
          /\ notified' = notify(ok)
          /\ IF ok THEN UNCHANGED logged
                   ELSE Log("error sending shutdown notification")
    /\ notifyCalls' = notifyCalls + 1
    /\ ub' = (ub \/ notifyInit = 0)
    /\ hstack' = Pop
    /\ calls' = Append(calls, Call("shutdown", None, None))
    /\ UNCHANGED <<exitCode, flag, delivered>>
    /\ UNCHANGED <<pc, dirs, fs, config, app, createCleanup, runResult,
                   waitResult, notifyAt, notifyInit, disp, attempted, armRet>>

\* if let Err(err) = SHUTDOWN_NOTIFY.assume_init_mut().notify() { error!(..) }
HandlerNotify ==
    /\ Alive /\ hstack # <<>> /\ Top.hpc = "notify"
    /\ \E ok \in BOOLEAN :
          /\ notified' = notify(ok)
          /\ IF ok THEN UNCHANGED logged
                   ELSE Log("error sending shutdown notification")
    /\ notifyCalls' = notifyCalls + 1
    /\ ub' = (ub \/ notifyInit = 0)
    /\ hstack' = Pop
    /\ UNCHANGED <<exitCode, flag, delivered>>
    /\ UNCHANGED lifecycleVars

----------------------------------------------------------------------------
Next ==
    \/ MainGetArgs
    \/ MainBootstrapLog
    \/ MainLoadConfig
    \/ MainCreate
    \/ MainShutdownCreateErr
    \/ MainInitNotify
    \/ MainArm
    \/ MainReportSignalError
    \/ MainShutdownArmErr
    \/ MainRunCall
    \/ MainRunReturn
    \/ MainWait
    \/ MainShutdownOk
    \/ MainShutdownErr
    \/ MainReturn
    \/ \E sig \in Signals : Deliver(sig)
    \/ HandlerCheck
    \/ HandlerNotify

Spec == Init /\ [][Next]_vars

\* The steps of main other than the wait: straight-line code and component
\* operations, which are assumed to return.
MainStep ==
    \/ MainGetArgs
    \/ MainBootstrapLog
    \/ MainLoadConfig
    \/ MainCreate
    \/ MainShutdownCreateErr
    \/ MainInitNotify
    \/ MainArm
    \/ MainReportSignalError
    \/ MainShutdownArmErr
    \/ MainRunCall
    \/ MainRunReturn
    \/ MainShutdownOk
    \/ MainShutdownErr
    \/ MainReturn

\* wait_no_reset() returns Ok: it does whenever the object is notified.
MainWaitOk == MainWait /\ waitResult' = Some("Ok")

\* The steps of a handler invocation, which runs to its end once entered.
HandlerRun == HandlerCheck \/ HandlerNotify

\* Main and the handlers keep running; no signal ever has to arrive, and the
\* wait never has to fail.
Fairness ==
    /\ WF_vars(MainStep)
    /\ WF_vars(MainWaitOk)
    /\ WF_vars(HandlerRun)

FairSpec == Init /\ [][Next]_vars /\ Fairness

----------------------------------------------------------------------------
\* Vocabulary of the properties.

Terminated == exitCode # None

\* The process was ended by the handler's exit(1) (second interrupt).
EscalationExit == Terminated /\ hstack # <<>>

CallsOf(op) == SelectSeq(calls, LAMBDA c : c.op = op)

Invoked(op) == Len(CallsOf(op))

CreateFailed == Invoked("create") = 1 /\ app = "none"

RunFailed == runResult # None /\ ~runResult[1].ok

RunSucceeded == runResult # None /\ runResult[1].ok

ArmFailed == armRet # None /\ armRet # Some(0)

----------------------------------------------------------------------------
\* C1: when create fails, shutdown is invoked exactly once, with the cleanup
\* create returned and no run cleanup, and neither run nor shutdown_err is
\* invoked, whatever signals are delivered: never more than that one call,
\* the call is made as soon as main leaves the failure branch, and it has
\* been made whenever the process has ended.
C1_CreateFailure ==
    CreateFailed =>
        /\ Invoked("run") = 0
        /\ Invoked("shutdown_err") = 0
        /\ IF pc = "create_failed"
           THEN Invoked("shutdown") = 0 /\ ~Terminated
           ELSE CallsOf("shutdown")
                    = <<Call("shutdown", Some("create_cleanup"), None)>>

C1_Witness ==
    /\ CreateFailed /\ Terminated /\ delivered > 0
    /\ Invoked("shutdown") = 1

\* C2 as stated: in every run in which run fails, by the time the process
\* has ended shutdown_err has been invoked exactly once with the two cleanup
\* values and shutdown not at all.
C2_Original ==
    (RunFailed /\ Terminated) =>
        /\ CallsOf("shutdown_err")
               = <<Call("shutdown_err", Some("create_cleanup"),
                        Some("run_error_cleanup"))>>
        /\ Invoked("shutdown") = 0

\* C2 as amended: when run fails, shutdown is never invoked and shutdown_err
\* is invoked with the cleanup of create and the error cleanup of run, never
\* twice; it has been invoked exactly once whenever the process has ended,
\* unless the handler's second-interrupt exit ended the process before main
\* reached the call.
C2_RunFailure ==
    RunFailed =>
        /\ Invoked("shutdown") = 0
        /\ IF pc = "run_failed"
           THEN Invoked("shutdown_err") = 0
                /\ (Terminated => EscalationExit)
           ELSE CallsOf("shutdown_err")
                    = <<Call("shutdown_err", Some("create_cleanup"),
                             Some("run_error_cleanup"))>>

C2_Witness ==
    /\ RunFailed /\ pc = "done" /\ flag /\ delivered > 1
    /\ Invoked("shutdown_err") = 1

\* C3 as stated: in every run in which run succeeds and the wait then
\* receives the notification, by the time the process has ended shutdown has
\* been invoked exactly once with both cleanup values and shutdown_err not
\* at all.
C3_Original ==
    (RunSucceeded /\ waitResult = Some("Ok") /\ Terminated) =>
        /\ CallsOf("shutdown")
               = <<Call("shutdown", Some("create_cleanup"),
                        Some("run_cleanup"))>>
        /\ Invoked("shutdown_err") = 0

\* C3 as amended: when run succeeds and the wait receives the notification,
\* shutdown_err is never invoked and shutdown is invoked with the cleanup of
\* create and Some(run_cleanup), never twice; it has been invoked exactly
\* once whenever the process has ended, unless the handler's
\* second-interrupt exit ended the process before main reached the call.
C3_RunSuccess ==
    (RunSucceeded /\ waitResult = Some("Ok")) =>
        /\ Invoked("shutdown_err") = 0
        /\ IF pc = "wait_done"
           THEN Invoked("shutdown") = 0
                /\ (Terminated => EscalationExit)
           ELSE CallsOf("shutdown")
                    = <<Call("shutdown", Some("create_cleanup"),
                             Some("run_cleanup"))>>

C3_Witness ==
    /\ RunSucceeded /\ waitResult = Some("Ok") /\ pc = "done"
    /\ Invoked("shutdown") = 1

\* C4: once registering the handler has failed for the k-th signal, no
\* later signal is registered, run and shutdown_err are never invoked, and
\* by the time the process has ended shutdown has been invoked exactly once
\* with the cleanup of create and no run cleanup.
C4_Original ==
    ArmFailed =>
        /\ attempted = {ArmOrder[i] : i \in 1..Cardinality(attempted)}
        /\ armed \subseteq attempted
        /\ Invoked("run") = 0
        /\ Invoked("shutdown_err") = 0
        /\ Terminated =>
              CallsOf("shutdown")
                  = <<Call("shutdown", Some("create_cleanup"), None)>>

\* C5: whenever a handler is installed (or registering one has been tried,
\* or a handler invocation is active) the notification object has been
\* initialized; it is initialized at most once, only after create has
\* succeeded, and the handler never uses an uninitialized object.
C5_InitBeforeArm ==
    /\ notifyInit \in {0, 1}
    /\ (armed # {} \/ attempted # {} \/ hstack # <<>> \/ notifyCalls > 0)
           => notifyInit = 1
    /\ notifyInit = 1 => (Invoked("create") = 1 /\ app # "none")
    /\ (pc = "init_notify") => (notifyInit = 0 /\ attempted = {})
    /\ ~ub

C5_Witness ==
    /\ hstack # <<>> /\ Top.hpc = "notify" /\ notifyInit = 1
    /\ armed # Signals

\* A step of the handler invocation on top of the stack (not a delivery).
HandlerStep == hstack # <<>> /\ delivered' = delivered /\ vars' # vars

\* C6: the escalation flag is false until an interrupt has been handled,
\* the first interrupt sets it, and it never returns to false; an interrupt
\* handled while it is true ends the process with that step, which neither
\* calls notify() nor invokes a component operation, and nothing happens
\* after the process has ended.
C6_Escalation ==
    /\ [](delivered = 0 => ~flag)
    /\ [][flag => flag']_vars
    /\ [][(HandlerStep /\ Top.sig = SIGINT /\ Top.hpc = "check" /\ ~flag)
              => (flag' /\ ~Terminated')]_vars
    /\ [][(HandlerStep /\ Top.sig = SIGINT /\ Top.hpc = "check" /\ flag)
              => /\ exitCode' = Some(1)
                 /\ notifyCalls' = notifyCalls
                 /\ notified' = notified
                 /\ calls' = calls]_vars
    /\ [][~Terminated]_vars

C6_Witness ==
    /\ EscalationExit /\ flag /\ Top.sig = SIGINT
    /\ exitCode = Some(1)

\* C7 as stated: the first interrupt's handler calls notify() before it
\* sets the escalation flag, so whenever the flag is true notify() has been
\* invoked.
C7_Original == flag => notifyCalls >= 1

\* C7 as amended: the first interrupt's handler sets the escalation flag and
\* then calls notify(); whenever the flag is true, notify() has been invoked
\* or that handler invocation is still active and about to invoke it.  The
\* second interrupt ends the process, and only after the first one's
\* notify() has been invoked.
C7_FirstInterruptNotifies ==
    /\ flag =>
          \/ notifyCalls >= 1
          \/ \E i \in 1..Len(hstack) :
                hstack[i].sig = SIGINT /\ hstack[i].hpc = "notify"
    /\ EscalationExit => (flag /\ notifyCalls >= 1)

C7_Witness == EscalationExit /\ pc = "running" /\ delivered = 2

\* C8: a step of the handler for a hang-up or terminate signal never ends
\* the process, never changes the escalation flag and changes nothing of
\* the lifecycle thread; the invocation goes on to notify() and calls it
\* exactly once, and a failure of notify() is logged and nothing else.
C8_HupTerm ==
    /\ [][(HandlerStep /\ Top.sig # SIGINT)
              => /\ ~Terminated'
                 /\ flag' = flag
                 /\ UNCHANGED lifecycleVars]_vars
    /\ [][(HandlerStep /\ Top.sig # SIGINT /\ Top.hpc = "check")
              => /\ hstack' = [hstack EXCEPT ![Len(hstack)].hpc = "notify"]
                 /\ notifyCalls' = notifyCalls]_vars
    /\ [][(HandlerStep /\ Top.sig # SIGINT /\ Top.hpc = "notify")
              => /\ hstack' = Pop
                 /\ notifyCalls' = notifyCalls + 1
                 /\ (notified' \/ "error sending shutdown notification"
                                      \in logged')]_vars

C8_Witness ==
    /\ "error sending shutdown notification" \in logged
    /\ notifyCalls >= 2 /\ ~flag /\ ~notified /\ ~Terminated
    /\ hstack = <<>>

\* C9: when no candidate path holds a file that opens and parses, main
\* reports that no configuration was obtained and the process ends there:
\* no component operation is invoked, the notification object is not
\* initialized and no handler is registered.
C9_ConfigMissing ==
    /\ [][(pc = "load" /\ pc' # pc
              /\ \A p \in Paths(dirs) : fs[p] # "valid")
              => /\ pc' = "done" /\ Terminated'
                 /\ config' = None
                 /\ "could not obtain valid configuration" \in logged']_vars
    /\ []((config = None /\ pc \notin {"start", "bootstrap", "load"})
              => /\ pc \in {"done", "exited", "panicked"}
                 /\ calls = <<>>
                 /\ notifyInit = 0
                 /\ armed = {} /\ attempted = {}
                 /\ hstack = <<>> /\ notifyCalls = 0)

C9_Witness ==
    /\ pc = "done" /\ config = None /\ Len(dirs) = 2
    /\ "could not obtain valid configuration" \in logged

\* C10: the process ends with status 0 when run succeeded, the notification
\* was received and shutdown returned, and with a non-zero status when
\* resolving the arguments failed and when no configuration was found.
C10_Original ==
    /\ (pc = "done" /\ RunSucceeded /\ waitResult = Some("Ok"))
           => exitCode = Some(0)
    /\ (pc = "exited") => (Terminated /\ exitCode # Some(0))
    /\ (pc = "done" /\ config = None) => exitCode # Some(0)


\* C11 as stated: when the wait returns an error after run succeeded, the
\* error is logged and, by the time the process has ended, shutdown has been
\* invoked exactly once with both cleanup values and shutdown_err not at all.
C11_Original ==
    (RunSucceeded /\ waitResult = Some("Err")) =>
        /\ "bad condition variable" \in logged
        /\ Invoked("shutdown_err") = 0
        /\ Terminated =>
              CallsOf("shutdown")
                  = <<Call("shutdown", Some("create_cleanup"),
                           Some("run_cleanup"))>>

\* C11 as amended: when the wait returns an error after run succeeded, the
\* error is logged, shutdown_err is never invoked and main goes on to invoke
\* shutdown with the cleanup of create and Some(run_cleanup), never twice;
\* shutdown has been invoked exactly once whenever the process has ended,
\* unless the handler's second-interrupt exit ended the process before main
\* reached the call.
C11_WaitError ==
    (RunSucceeded /\ waitResult = Some("Err")) =>
        /\ "bad condition variable" \in logged
        /\ Invoked("shutdown_err") = 0
        /\ IF pc = "wait_done"
           THEN Invoked("shutdown") = 0
                /\ (Terminated => EscalationExit)
           ELSE CallsOf("shutdown")
                    = <<Call("shutdown", Some("create_cleanup"),
                             Some("run_cleanup"))>>

C11_Witness ==
    /\ RunSucceeded /\ waitResult = Some("Err") /\ ~notified
    /\ pc = "done" /\ Invoked("shutdown") = 1


\* C12 as stated: whenever notify() was called N >= 1 times before the wait
\* observed it (calls made while run was executing included), the wait was
\* woken exactly once and, by the time the process has ended, shutdown has
\* been invoked exactly once.
C12_Original ==
    (waitResult = Some("Ok") /\ notifyAt[2] >= 1 /\ Terminated) =>
        /\ Len(notifyAt) = 2
        /\ Invoked("shutdown") = 1

\* C12 as amended: however many times notify() was called before the wait
\* observed it (N >= 1, calls made while run was executing included), the
\* wait is woken exactly once and shutdown is invoked at most once, not N
\* times; it has been invoked exactly once whenever the process has ended,
\* unless the handler's second-interrupt exit ended the process before main
\* reached the call.
C12_NotifyCollapses ==
    waitResult = Some("Ok") =>
        /\ Len(notifyAt) = 2
        /\ notifyAt[2] >= 1
        /\ IF pc = "wait_done"
           THEN Invoked("shutdown") = 0
                /\ (Terminated => EscalationExit)
           ELSE Invoked("shutdown") = 1

C12_Witness ==
    /\ waitResult = Some("Ok") /\ pc = "done"
    /\ notifyAt[1] >= 1 /\ notifyAt[2] >= 2
    /\ Invoked("shutdown") = 1


Cleanups == Invoked("shutdown") + Invoked("shutdown_err")

\* C14: shutdown and shutdown_err together are invoked at most once; once
\* one of them has been invoked it is the last component operation invoked,
\* main is inside it or has returned, and when main has returned the process
\* has ended.
C14_CleanupTerminal ==
    /\ Cleanups <= 1
    /\ Cleanups = 1 =>
           /\ calls[Len(calls)].op \in {"shutdown", "shutdown_err"}
           /\ pc \in {"in_shutdown", "done"}
    /\ pc = "in_shutdown" => (Cleanups = 1 /\ (Terminated => EscalationExit))
    /\ pc = "done" => (Terminated /\ hstack = <<>>)

C14_Witness ==
    /\ pc = "done" /\ Invoked("shutdown_err") = 1
    /\ Len(calls) = 3 /\ delivered > 0


FlagWriters == {i \in 1..Len(hstack) : hstack[i].sig = SIGINT}

\* The handler invocations that are at their call of notify() on
\* SHUTDOWN_NOTIFY: past the flag check and not yet returned.
NotifyWriters == {i \in 1..Len(hstack) : hstack[i].hpc = "notify"}

\* C16 as stated: neither the escalation flag nor the notification primitive
\* ever has two writers at once, also when handlers of different signal
\* kinds nest.
C16_Original ==
    /\ Cardinality(FlagWriters) <= 1
    /\ Cardinality(NotifyWriters) <= 1


\* C17 as stated: a handler step changes nothing but the escalation flag,
\* the notification state and, on escalation, the exit status.
C17_Original ==
    [][HandlerStep => (UNCHANGED lifecycleVars /\ logged' = logged)]_vars

\* C17: a handler step leaves the lifecycle state unchanged (phase, cleanup
\* tokens, dispositions, component operations invoked); it ends the process
\* only as the escalation of a repeated interrupt, and it logs only the
\* failure of its notify().
C17_HandlerFrame ==
    [][HandlerStep =>
          /\ UNCHANGED lifecycleVars
          /\ ub' = ub
          /\ exitCode' # exitCode =>
                 (Top.sig = SIGINT /\ Top.hpc = "check" /\ flag
                      /\ exitCode' = Some(1))
          /\ flag' # flag => (Top.sig = SIGINT /\ Top.hpc = "check")
          /\ notified' # notified => Top.hpc = "notify"
          /\ logged' # logged =>
                 /\ Top.hpc = "notify" /\ notified' = notified
                 /\ logged' =
                        logged \cup {"error sending shutdown notification"}
      ]_vars

C17_Witness ==
    /\ pc = "wait" /\ hstack = <<>> /\ notifyCalls = 2 /\ flag
    /\ notified /\ "error sending shutdown notification" \in logged


\* C18 as stated: load_config returns the first candidate that exists and
\* parses in the order directory first, file name second, and None only if
\* no candidate exists and parses.
C18_Original ==
    [][(pc = "load" /\ pc' # "load") =>
          /\ config' = None <=> (\A p \in Paths(dirs) : fs[p] # "valid")
          /\ \A i1, i2 \in 1..Len(dirs) :
                \A j1, j2 \in 1..Len(CONFIG_FILES) :
                    (/\ config' = Some([dir |-> dirs[i1],
                                        file |-> CONFIG_FILES[j1]])
                     /\ fs[[dir |-> dirs[i2],
                            file |-> CONFIG_FILES[j2]]] = "valid")
                        => (i1 < i2 \/ (i1 = i2 /\ j1 <= j2))
      ]_vars


\* C19 as stated: main takes the failure path of the registration exactly
\* when signal() reported an error; a registration that replaced an ignored
\* disposition has installed the handler and counts as a success.
C19_Original ==
    /\ pc = "report_signal_error" =>
           /\ armRet = Some(SIG_ERR)
           /\ ArmOrder[Cardinality(attempted)] \notin armed
    /\ armRet = Some(SIG_ERR) =>
           pc \in {"report_signal_error", "arm_failed", "aborted",
                   "in_shutdown", "done"}


\* C20: run is invoked at most once, and it is invoked only when create has
\* returned the application, the notification object has been written and
\* the handlers of SIGTERM, SIGINT and SIGHUP are all installed; they stay
\* installed afterwards.
C20_RunGuard ==
    /\ [](Invoked("run") <= 1)
    /\ [](Invoked("run") = 1 =>
              /\ armed = Signals /\ attempted = Signals
              /\ notifyInit = 1 /\ ~ub
              /\ Invoked("create") = 1 /\ calls[1].op = "create"
              /\ app = "moved")
    /\ [][Invoked("run")' > Invoked("run") =>
              /\ app = "app" /\ createCleanup = "create_cleanup"
              /\ notifyInit = 1
              /\ armed = Signals
              /\ Invoked("run") = 0]_vars

C20_Witness ==
    /\ pc = "running" /\ Invoked("run") = 1 /\ armed = Signals
    /\ hstack # <<>> /\ delivered = 2


\* C21 as stated: when create has been invoked and the process has ended
\* otherwise than by the handler's escalation exit, exactly one call of
\* shutdown or shutdown_err has been made and has returned, and it received
\* the cleanup that create produced.
C21_Original ==
    (Terminated /\ ~EscalationExit /\ Invoked("create") >= 1) =>
        /\ Cleanups = 1
        /\ pc = "done"
        /\ calls[Len(calls)].op \in {"shutdown", "shutdown_err"}
        /\ calls[Len(calls)].create = Some("create_cleanup")

====
